---- MODULE Spec2Model ----
(***************************************************************************)
(* Crumbelore: the browser-side book catalog and reservation manager       *)
(* (public/js/bookSystem.js), the session stub it is gated by              *)
(* (public/js/auth.js) and the JSON-file backend (server.js).              *)
(*                                                                         *)
(* Conventions.  Instants are integers, milliseconds on the Date.now()     *)
(* clock; an ISO date string written by toISOString() is represented by    *)
(* the millisecond instant it denotes (toISOString keeps milliseconds).    *)
(* JavaScript null / undefined / a missing storage key is the value -1     *)
(* for a number, "" for a string and NoUser for a user object.  A          *)
(* reservation id 'RES-<t>' is represented by the number t.  Sequences     *)
(* are 1-based, so findIndex's -1 ("not found") is index 0 here.           *)
(***************************************************************************)
EXTENDS Integers, Sequences, FiniteSets, TLC

VARIABLES
    now,            \* the wall clock read by Date.now() / new Date()
    books,          \* BookSystem.books (the Catalog), in insertion order
    reservations,   \* BookSystem.reservations, in insertion order
    lsBooks,        \* localStorage['crumbelore_books']
    lsReservations, \* localStorage['crumbelore_reservations']
    session,        \* sessionStorage: authToken, currentUser, userType, authExpiry
    isOfflineMode,  \* AuthSystem.isOfflineMode
    probe,          \* position of AuthSystem.init(): "pending" or "done"
    serverUp,       \* environment: whether the backend answers requests
    syncs,          \* syncWithServer() calls in flight
    srvBooks,       \* server file data/books.json
    srvReservations,\* server file data/reservations.json
    users,          \* server file data/users.json
    usersBackup,    \* server file data/users.json.backup
    resp,           \* the answers to the login requests, oldest first
    srvBooksBackup, \* server file data/books.json.backup
    srvOrders,      \* server file data/orders.json
    srvOrdersBackup,\* server file data/orders.json.backup
    handlers,       \* the requests the server is handling, by request
    turn,           \* the page calls under way: begun and not yet returned
    last,           \* the last client call: its arguments and what it returned
    calls           \* how many calls the page has made

vars == <<now, books, reservations, lsBooks, lsReservations, session,
          isOfflineMode, probe, serverUp, syncs, srvBooks, srvReservations,
          users, usersBackup, resp, srvBooksBackup, srvOrders,
          srvOrdersBackup, handlers, turn, last, calls>>

clientVars == <<books, reservations, lsBooks, lsReservations, session,
                isOfflineMode, probe, serverUp, syncs, srvBooks,
                srvReservations, turn, last, calls>>

storeVars == <<srvBooksBackup, srvOrders, srvOrdersBackup, handlers>>

serverVars == <<users, usersBackup, resp, storeVars>>

-----------------------------------------------------------------------------
(* Bounds of the model *)

\* Millisecond ticks of the clock while the page is in use.
MaxTick == 1
\* Calls of BookSystem and AuthSystem methods the page makes.
MaxCalls == 3
\* Login requests the server handles.
MaxRequests == 3
\* Requests the server handles at the same time.
MaxInFlight == 2
\* Calls the page makes when it only logs in, reserves and cancels.
MaxBookings == 4

(* Program constants *)

\* bookSystem.js:181, 7 * 24 * 60 * 60 * 1000
SevenDaysMs == 604800000
\* auth.js:79, 4 * 60 * 60 * 1000
SessionMs == 14400000
\* server.js:43 and 59, retries = 3
Retries == 3

-----------------------------------------------------------------------------
(* Error messages, as thrown in the source *)

ErrLogin == "Please log in to reserve books"
ErrBookNotFound == "Book not found"
ErrNoCopies == "No copies available for reservation"
ErrDuplicate == "You already have this book reserved"
ErrResNotFound == "Reservation not found"
ErrUnauthorized == "Unauthorized to cancel this reservation"
\* user.id on a null user: the engine's TypeError, caught by the handler
ErrTypeError == "Cannot read properties of null (reading 'id')"

-----------------------------------------------------------------------------
(* Session stub (auth.js) *)

NoUser == [id |-> -1, email |-> "", name |-> "", type |-> ""]

\* A token: 'demo-token-<t>' of the offline mode, or the backend's opaque one
NoToken == [kind |-> "none", t |-> -1]

NoSession == [authToken |-> NoToken, currentUser |-> NoUser, userType |-> "",
              authExpiry |-> -1]

\* getCurrentUser's expiry test: expiry && Date.now() > parseInt(expiry)
SessionExpired ==
    /\ session.currentUser # NoUser
    /\ session.authExpiry # -1
    /\ now > session.authExpiry

\* getCurrentUser(): the stored user, or null when none or expired
getCurrentUser ==
    IF session.currentUser = NoUser \/ SessionExpired
    THEN NoUser
    ELSE session.currentUser

\* Faulty variant of SessionAfterGet: the elapsed session is reported but
\* its keys are left in place.
SessionKeptAfterGet == session

\* sessionStorage after getCurrentUser(): an elapsed expiry calls logout()
SessionAfterGet == IF SessionExpired THEN NoSession ELSE session

isAuthenticated == getCurrentUser # NoUser

-----------------------------------------------------------------------------
(* Catalog helpers (bookSystem.js) *)

SeedBooks ==
    << [id |-> "silent-patient",    totalCopies |-> 3, availableCopies |-> 2],
       [id |-> "evelyn-hugo",       totalCopies |-> 2, availableCopies |-> 1],
       [id |-> "project-hail-mary", totalCopies |-> 2, availableCopies |-> 2],
       [id |-> "atomic-habits",     totalCopies |-> 4, availableCopies |-> 3] >>

\* this.books.findIndex(b => b.id === bookId); 0 when there is none
BookIndex(bs, bookId) ==
    IF \E i \in DOMAIN bs : bs[i].id = bookId
    THEN CHOOSE i \in DOMAIN bs :
            /\ bs[i].id = bookId
            /\ \A j \in 1..(i - 1) : bs[j].id # bookId
    ELSE 0

\* this.reservations.find(r => r.id === reservationId), as an index
ResIndex(rs, reservationId) ==
    IF \E i \in DOMAIN rs : rs[i].id = reservationId
    THEN CHOOSE i \in DOMAIN rs :
            /\ rs[i].id = reservationId
            /\ \A j \in 1..(i - 1) : rs[j].id # reservationId
    ELSE 0

\* the duplicate test of reserveBook
HasActive(rs, bookId, userId) ==
    \E i \in DOMAIN rs :
        /\ rs[i].bookId = bookId
        /\ rs[i].userId = userId
        /\ rs[i].status = "active"

\* initializeBooks(): seed an empty catalog
initializeBooks(bs) == IF Len(bs) = 0 THEN SeedBooks ELSE bs

\* A call and what it returned: reserveBook's reservationId and expiryDate
\* are -1 when it returns no such field.
NoCall == [op |-> "none", bookId |-> "", resId |-> -1, success |-> FALSE,
           error |-> "", reservationId |-> -1, expiryDate |-> -1]

\* No page call is under way: the event loop is free.
NoTurn == {}

Returned(op, bookId, resId, success, error, reservationId, expiryDate) ==
    [op |-> op, bookId |-> bookId, resId |-> resId, success |-> success,
     error |-> error, reservationId |-> reservationId,
     expiryDate |-> expiryDate]

-----------------------------------------------------------------------------
(* The clock *)

\* One more millisecond may pass (the bound on the ticks modelled).
CanTick == (now % SessionMs) <= MaxTick

\* The instants a handler may read on a later line: the clock does not stop
\* while a handler runs.
LaterReads == IF CanTick THEN {now, now + 1} ELSE {now}

Tick ==
    /\ CanTick
    /\ now' = now + 1
    /\ UNCHANGED <<clientVars, serverVars>>

\* A session lifetime passes with the page left open.
Jump ==
    /\ now < SessionMs
    /\ now' = now + SessionMs
    /\ UNCHANGED <<clientVars, serverVars>>

-----------------------------------------------------------------------------
(* reserveBook (bookSystem.js:142-209) *)

\* Faulty variant of ReserveError: the duplicate check of lines 160-169 is
\* left out.
ReserveErrorNoDuplicateCheck(bookId) ==
    LET idx == BookIndex(books, bookId)
    IN  IF ~isAuthenticated THEN ErrLogin
        ELSE IF idx = 0 THEN ErrBookNotFound
        ELSE IF books[idx].availableCopies <= 0 THEN ErrNoCopies
        ELSE ""

\* Faulty variant of ReserveError: line 156 tests < 0 instead of <= 0.
ReserveErrorAllowsZero(bookId) ==
    LET user == getCurrentUser
        idx  == BookIndex(books, bookId)
    IN  IF ~isAuthenticated THEN ErrLogin
        ELSE IF idx = 0 THEN ErrBookNotFound
        ELSE IF books[idx].availableCopies < 0 THEN ErrNoCopies
        ELSE IF HasActive(reservations, bookId, user.id) THEN ErrDuplicate
        ELSE ""

\* The message of the first check that throws, "" when none does.
ReserveError(bookId) ==
    LET user == getCurrentUser
        idx  == BookIndex(books, bookId)
    IN  IF ~isAuthenticated THEN ErrLogin
        ELSE IF idx = 0 THEN ErrBookNotFound
        ELSE IF books[idx].availableCopies <= 0 THEN ErrNoCopies
        ELSE IF HasActive(reservations, bookId, user.id) THEN ErrDuplicate
        ELSE ""

\* The reservation object built at lines 172-184: tId, tRes and tExp are the
\* clock values read at lines 173, 180 and 181.
NewReservation(bookId, user, tId, tRes, tExp) ==
    [id |-> tId, bookId |-> bookId, userId |-> user.id,
     reservationDate |-> tRes, expiryDate |-> tExp + SevenDaysMs,
     status |-> "active", cancelledDate |-> -1]

\* book.availableCopies-- on the book found by getBookById
DecrementAvailable(bs, idx) ==
    [bs EXCEPT ![idx].availableCopies = @ - 1]

\* syncWithServer() up to its first await: the books request is issued with
\* the catalog as it is at the call; n names the call.
StartSync(n, bs) == [n |-> n, stage |-> "books", books |-> bs,
                     reservations |-> << >>]

reserveBook(bookId) ==
    LET err  == ReserveError(bookId)
        user == getCurrentUser
        idx  == BookIndex(books, bookId)
    IN  IF err # ""
        THEN /\ session' = SessionAfterGet
             /\ last' = Returned("reserveBook", bookId, -1, FALSE,
                                 err, -1, -1)
             /\ UNCHANGED <<now, books, reservations, lsBooks, lsReservations,
                            syncs>>
        ELSE /\ \E tExp \in LaterReads :
                  LET r  == NewReservation(bookId, user, now, now, tExp)
                      bs == DecrementAvailable(books, idx)
                      rs == Append(reservations, r)
                  IN  /\ now' = tExp
                      /\ books' = bs
                      /\ reservations' = rs
                      /\ lsBooks' = bs
                      /\ lsReservations' = rs
                      /\ syncs' = syncs \cup {StartSync(Len(rs), bs)}
                      /\ last' = Returned("reserveBook", bookId, -1, TRUE, "",
                                          r.id, r.expiryDate)
             /\ UNCHANGED session

-----------------------------------------------------------------------------
(* cancelReservation (bookSystem.js:211-243) *)

\* The message of the first throw, "" when none: a missing reservation, a
\* null user (user.id raises a TypeError the handler catches), another owner.
CancelError(reservationId) ==
    LET i    == ResIndex(reservations, reservationId)
        user == getCurrentUser
    IN  IF i = 0 THEN ErrResNotFound
        ELSE IF user = NoUser THEN ErrTypeError
        ELSE IF reservations[i].userId # user.id THEN ErrUnauthorized
        ELSE ""

\* Faulty variant of MarkCancelled: the status is toggled, so cancelling a
\* cancelled reservation makes it active again.
MarkCancelledToggle(rs, i, t) ==
    [rs EXCEPT ![i].status = IF @ = "active" THEN "cancelled" ELSE "active",
               ![i].cancelledDate = t]

\* lines 225-226
MarkCancelled(rs, i, t) ==
    [rs EXCEPT ![i].status = "cancelled", ![i].cancelledDate = t]

\* Faulty variant of IncrementAvailable: the copy is given back to the first
\* book of the Catalog, whichever book the reservation names.
IncrementAvailableFirstBook(bs, bookId) ==
    IF Len(bs) = 0 THEN bs
    ELSE [bs EXCEPT ![1].availableCopies = @ + 1]

\* lines 229-232: the book found by getBookById gets one copy back
IncrementAvailable(bs, bookId) ==
    LET idx == BookIndex(bs, bookId)
    IN  IF idx = 0 THEN bs
        ELSE [bs EXCEPT ![idx].availableCopies = @ + 1]

cancelReservation(reservationId) ==
    LET err  == CancelError(reservationId)
        i    == ResIndex(reservations, reservationId)
        user == getCurrentUser
    IN  /\ IF err = ErrResNotFound
           THEN session' = session          \* getCurrentUser is not reached
           ELSE session' = SessionAfterGet
        /\ IF err # ""
           THEN /\ last' = Returned("cancelReservation", "", reservationId,
                                    FALSE, err, -1, -1)
                /\ UNCHANGED <<books, reservations, lsBooks, lsReservations>>
           ELSE LET rs == MarkCancelled(reservations, i, now)
                    bs == IncrementAvailable(books, reservations[i].bookId)
                IN  /\ reservations' = rs
                    /\ books' = bs
                    /\ lsBooks' = bs
                    /\ lsReservations' = rs
                    /\ last' = Returned("cancelReservation", "", reservationId,
                                        TRUE, "", -1, -1)
        /\ UNCHANGED <<now, syncs>>

-----------------------------------------------------------------------------
(* Admin functions (bookSystem.js:265-317) *)

\* Inputs of the admin calls
Titles == {"Dune", "Evelyn  Hugo!"}
CopiesInputs == {"-1", "0", ""}
OpBookIds == {"evelyn-hugo", "dune"}

\* title.toLowerCase().replace(/\s+/g, '-').replace(/[^a-z0-9-]/g, '')
Slug(title) ==
    CASE title = "Dune"          -> "dune"
      [] title = "Evelyn  Hugo!" -> "evelyn-hugo"

\* parseInt(bookData.copies) || 1: NaN and 0 are falsy, a negative is kept
CopiesOf(raw) ==
    CASE raw = "-1" -> -1
      [] raw = "0"  -> 1
      [] raw = ""   -> 1

\* the book object of lines 266-280
NewBook(title, raw) ==
    [id |-> Slug(title), totalCopies |-> CopiesOf(raw),
     availableCopies |-> CopiesOf(raw)]

addBook(title, raw) ==
    LET bs == Append(books, NewBook(title, raw))
    IN  /\ books' = bs
        /\ lsBooks' = bs
        /\ last' = Returned("addBook", Slug(title), -1, TRUE, "", -1, -1)
        /\ UNCHANGED <<now, reservations, lsReservations, session, syncs>>

\* The patches tried: keys names the keys of the updates object; "shelf" is
\* a key no book has.
Patches ==
    { [keys |-> {"totalCopies"}, id |-> "", totalCopies |-> 0,
       availableCopies |-> 0],
      [keys |-> {"availableCopies"}, id |-> "", totalCopies |-> 0,
       availableCopies |-> 3],
      [keys |-> {"id"}, id |-> "project-hail-mary", totalCopies |-> 0,
       availableCopies |-> 0],
      [keys |-> {"shelf"}, id |-> "", totalCopies |-> 0,
       availableCopies |-> 0] }

\* lines 291-295: every key of the patch that the book has is overwritten
ApplyPatch(book, patch) ==
    [id |-> IF "id" \in patch.keys THEN patch.id ELSE book.id,
     totalCopies |-> IF "totalCopies" \in patch.keys
                     THEN patch.totalCopies ELSE book.totalCopies,
     availableCopies |-> IF "availableCopies" \in patch.keys
                         THEN patch.availableCopies ELSE book.availableCopies]

updateBook(bookId, patch) ==
    LET idx == BookIndex(books, bookId)
    IN  IF idx = 0
        THEN /\ last' = Returned("updateBook", bookId, -1, FALSE, "", -1, -1)
             /\ UNCHANGED <<now, books, reservations, lsBooks, lsReservations,
                            session, syncs>>
        ELSE LET bs == [books EXCEPT ![idx] = ApplyPatch(@, patch)]
             IN  /\ books' = bs
                 /\ lsBooks' = bs
                 /\ last' = Returned("updateBook", bookId, -1, TRUE, "", -1, -1)
                 /\ UNCHANGED <<now, reservations, lsReservations, session,
                                syncs>>

\* Faulty variant of CascadeCancel: the reservations of the deleted book are
\* dropped from the set instead of being cancelled in place.
CascadeCancelDrops(rs, bookId, t) ==
    SelectSeq(rs, LAMBDA r : ~(r.bookId = bookId /\ r.status = "active"))

\* lines 306-311: every active reservation of the book is cancelled
CascadeCancel(rs, bookId, t) ==
    [i \in DOMAIN rs |->
        IF rs[i].bookId = bookId /\ rs[i].status = "active"
        THEN [rs[i] EXCEPT !.status = "cancelled", !.cancelledDate = t]
        ELSE rs[i]]

\* this.books.splice(index, 1)
RemoveAt(bs, idx) ==
    [i \in 1..(Len(bs) - 1) |-> IF i < idx THEN bs[i] ELSE bs[i + 1]]

deleteBook(bookId) ==
    LET idx == BookIndex(books, bookId)
    IN  IF idx = 0
        THEN /\ last' = Returned("deleteBook", bookId, -1, FALSE, "", -1, -1)
             /\ UNCHANGED <<now, books, reservations, lsBooks, lsReservations,
                            session, syncs>>
        ELSE LET rs == CascadeCancel(reservations, bookId, now)
                 bs == RemoveAt(books, idx)
             IN  /\ reservations' = rs
                 /\ books' = bs
                 /\ lsBooks' = bs
                 /\ lsReservations' = rs
                 /\ last' = Returned("deleteBook", bookId, -1, TRUE, "", -1, -1)
                 /\ UNCHANGED <<now, session, syncs>>

-----------------------------------------------------------------------------
(* AuthSystem (auth.js) *)

Emails == {"ann@x.io", "bob@x.io", "ann", ""}
Passwords == {"pw", ""}
UserTypes == {"customer"}

\* email.includes('@')
HasAt(email) == email \in {"ann@x.io", "bob@x.io"}

\* email.split('@')[0]
LocalPart(email) ==
    CASE email = "ann@x.io" -> "ann"
      [] email = "bob@x.io" -> "bob"
      [] OTHER -> email

\* 'demo-token-' + Date.now()
DemoToken(t) == [kind |-> "demo", t |-> t]

\* What a reachable backend answers to a well-formed login: an opaque token
\* and the user it holds for the email (to the client these are inputs).
ServerUserId(email) ==
    CASE email = "ann@x.io" -> 1
      [] email = "bob@x.io" -> 2
      [] OTHER -> 3
ServerToken == [kind |-> "server", t |-> 0]

LoginResult(success, error) ==
    Returned("login", "", -1, success, error, -1, -1)

\* Faulty variant of handleOfflineLogin: a refused login ends the session
\* that was stored.
handleOfflineLoginEndsSession(email, password, userType) ==
    IF email = "" \/ password = ""
    THEN /\ last' = LoginResult(FALSE, "Email and password required")
         /\ session' = NoSession
    ELSE IF ~HasAt(email)
    THEN /\ last' = LoginResult(FALSE, "Invalid email format")
         /\ session' = NoSession
    ELSE /\ session' = [session EXCEPT
                          !.authToken = DemoToken(now),
                          !.currentUser = [id |-> now, email |-> email,
                                           name |-> LocalPart(email),
                                           type |-> userType],
                          !.userType = userType]
         /\ last' = LoginResult(TRUE, "")

\* handleOfflineLogin (auth.js:47-71)
handleOfflineLogin(email, password, userType) ==
    IF email = "" \/ password = ""
    THEN /\ last' = LoginResult(FALSE, "Email and password required")
         /\ UNCHANGED session
    ELSE IF ~HasAt(email)
    THEN /\ last' = LoginResult(FALSE, "Invalid email format")
         /\ UNCHANGED session
    ELSE /\ session' = [session EXCEPT
                          !.authToken = DemoToken(now),
                          !.currentUser = [id |-> now, email |-> email,
                                           name |-> LocalPart(email),
                                           type |-> userType],
                          !.userType = userType]
         /\ last' = LoginResult(TRUE, "")

\* storeSession (auth.js:73-81)
storeSession(token, user, userType) ==
    [authToken |-> token, currentUser |-> user, userType |-> userType,
     authExpiry |-> now + SessionMs]

\* login (auth.js:21-45); the request and its answer are taken in one step
login(email, password, userType) ==
    /\ IF isOfflineMode
       THEN handleOfflineLogin(email, password, userType)
       ELSE IF ~serverUp
       THEN /\ last' = LoginResult(FALSE, "Connection failed")
            /\ UNCHANGED session
       ELSE IF email = "" \/ password = ""
       THEN /\ last' = LoginResult(FALSE, "Missing required fields")
            /\ UNCHANGED session
       ELSE    /\ session' = storeSession(ServerToken,
                                 [id |-> ServerUserId(email), email |-> email,
                                  name |-> LocalPart(email),
                                  type |-> userType], userType)
               /\ last' = LoginResult(TRUE, "")
    /\ UNCHANGED <<now, books, reservations, lsBooks, lsReservations, syncs>>

\* logout (auth.js:110-116)
logout ==
    /\ session' = NoSession
    /\ last' = Returned("logout", "", -1, TRUE, "", -1, -1)
    /\ UNCHANGED <<now, books, reservations, lsBooks, lsReservations, syncs>>

\* The page asks isAuthenticated() (auth.js:97-100): getCurrentUser runs,
\* logout() included when the expiry has elapsed.  The call is recorded with
\* the expiry it found in the session.
askIsAuthenticated ==
    /\ session' = SessionAfterGet
    /\ last' = Returned("isAuthenticated", "", -1, isAuthenticated, "", -1,
                        session.authExpiry)
    /\ UNCHANGED <<now, books, reservations, lsBooks, lsReservations, syncs>>

\* init (auth.js:10-19): the health probe started by the constructor ends
init ==
    /\ probe = "pending"
    /\ probe' = "done"
    /\ isOfflineMode' = IF serverUp THEN isOfflineMode ELSE TRUE
    /\ UNCHANGED <<now, books, reservations, lsBooks, lsReservations, session,
                   serverUp, syncs, srvBooks, srvReservations, last, calls,
                   serverVars, turn>>

\* The backend goes down or comes back.
ServerToggle ==
    /\ serverUp' = ~serverUp
    /\ UNCHANGED <<now, books, reservations, lsBooks, lsReservations, session,
                   isOfflineMode, probe, syncs, srvBooks, srvReservations,
                   last, calls, serverVars, turn>>

\* A page load: the constructors of AuthSystem (auth.js:3-8) and BookSystem
\* (bookSystem.js:3-7) run again over what the storages hold.
Reload ==
    /\ books' = initializeBooks(lsBooks)
    /\ lsBooks' = initializeBooks(lsBooks)
    /\ reservations' = lsReservations
    /\ isOfflineMode' = FALSE
    /\ probe' = "pending"
    /\ UNCHANGED <<now, lsReservations, session, serverUp, syncs, srvBooks,
                   srvReservations, last, calls, serverVars, turn>>

-----------------------------------------------------------------------------
(* The backend (server.js) *)

\* How many attempts of a retried file operation fail before one succeeds;
\* Retries when none does.
Failures == 0..Retries

\* The attempts the retry loop makes: up to the first that succeeds, all of
\* them when none does.
AttemptsMade(fails) == IF fails < Retries THEN fails + 1 ELSE Retries

\* Which of the backup copies succeed, by attempt.
Copies == [1..Retries -> BOOLEAN]

\* readJsonFile (server.js:43-57): the parsed file from the first attempt
\* that succeeds, the empty array when every attempt fails.
readJsonFile(file, fails) ==
    IF fails < Retries THEN file ELSE << >>

\* writeJsonFile (server.js:59-82): each attempt copies the file over the
\* backup (a failure of the copy is ignored) and then writes the data; the
\* result is true at the first write that succeeds, false after the last
\* attempt.  A failed write leaves the file as it was.
writeJsonFile(file, backup, data, copies, fails) ==
    [ok     |-> fails < Retries,
     file   |-> IF fails < Retries THEN data ELSE file,
     backup |-> IF \E i \in 1..AttemptsMade(fails) : copies[i]
                THEN file ELSE backup]

\* validateRequired(['email', 'password']) (server.js:85-93)
MissingRequired(email, password) == email = "" \/ password = ""

\* users.find(u => u.email === email): its index, 0 when there is none
UserIndex(us, email) ==
    IF \E i \in DOMAIN us : us[i].email = email
    THEN CHOOSE i \in DOMAIN us :
            us[i].email = email /\ \A j \in 1..(i - 1) : us[j].email # email
    ELSE 0

\* the user object of lines 114-120
NewUser(email, userType, t) ==
    [id |-> t, email |-> email, name |-> LocalPart(email),
     type |-> IF userType = "" THEN "customer" ELSE userType]

Answer(status, email, id) == [status |-> status, email |-> email, id |-> id]

\* POST /api/auth/login (server.js:105-136), handled from its arrival to
\* its answer with no other request in between.  The result of
\* writeJsonFile at line 122 is not looked at.
PostLogin(email, password, userType, reads, copies, writes) ==
    /\ Len(resp) < MaxRequests
    /\ IF MissingRequired(email, password)
       THEN /\ resp' = Append(resp, Answer(400, email, -1))
            /\ UNCHANGED <<users, usersBackup>>
       ELSE LET us  == readJsonFile(users, reads)
                idx == UserIndex(us, email)
            IN  IF idx # 0
                THEN /\ resp' = Append(resp, Answer(200, email, us[idx].id))
                     /\ UNCHANGED <<users, usersBackup>>
                ELSE LET user == NewUser(email, userType, now)
                         w    == writeJsonFile(users, usersBackup,
                                               Append(us, user), copies,
                                               writes)
                     IN  /\ users' = w.file
                         /\ usersBackup' = w.backup
                         /\ resp' = Append(resp, Answer(200, email, user.id))
    /\ UNCHANGED <<now, clientVars, storeVars>>


-----------------------------------------------------------------------------
(* The backend's handlers step by step: a handler runs until it awaits a    *)
(* file operation or the retry delay, and other requests are served while   *)
(* it waits (server.js:43-82, 105-213)                                      *)

\* The requests followed
Requests == 1..MaxInFlight

\* The routes that write a collection
Kinds == {"login", "addBook", "syncBooks", "addOrder"}

\* The collection a route works on
Collection(kind) ==
    CASE kind = "login"     -> "users"
      [] kind = "addBook"   -> "books"
      [] kind = "syncBooks" -> "books"
      [] kind = "addOrder"  -> "orders"

\* What a request body carries in the field its route looks at first (email,
\* title, books, items): "" when the field is missing, so that the route
\* answers 400.
BodyKeys(kind) ==
    CASE kind = "login"     -> {"ann@x.io", "bob@x.io", ""}
      [] kind = "addBook"   -> {"Dune", "Emma", ""}
      [] kind = "syncBooks" -> {"array", ""}
      [] kind = "addOrder"  -> {"cart-1", "cart-2", ""}

\* The books array a sync request carries
SyncPayload == << [id |-> "dune", totalCopies |-> 1, availableCopies |-> 1] >>

\* The record the route appends: the user of lines 114-120, newBook of
\* lines 152-156, newOrder of lines 195-199 (ids from Date.now()).
NewRecord(kind, key, t) ==
    CASE kind = "login"    -> NewUser(key, "", t)
      [] kind = "addBook"  -> [id |-> t, title |-> key, createdAt |-> t]
      [] kind = "addOrder" -> [id |-> t, items |-> key, createdAt |-> t]

FileOf(c) ==
    CASE c = "users"  -> users
      [] c = "books"  -> srvBooks
      [] c = "orders" -> srvOrders

BackupOf(c) ==
    CASE c = "users"  -> usersBackup
      [] c = "books"  -> srvBooksBackup
      [] c = "orders" -> srvOrdersBackup

\* Faulty variant of SetFile: the last record of the data is added to what
\* the file holds at the time of the write, a merge.
SetFileMerging(c, data) ==
    LET merged == IF Len(data) = 0 THEN data
                  ELSE Append(FileOf(c), data[Len(data)])
    IN  /\ users' = IF c = "users" THEN merged ELSE users
        /\ srvBooks' = IF c = "books" THEN merged ELSE srvBooks
        /\ srvOrders' = IF c = "orders" THEN merged ELSE srvOrders

\* fs.writeFile(filePath, ...) succeeded
SetFile(c, data) ==
    /\ users' = IF c = "users" THEN data ELSE users
    /\ srvBooks' = IF c = "books" THEN data ELSE srvBooks
    /\ srvOrders' = IF c = "orders" THEN data ELSE srvOrders

\* fs.copyFile(filePath, backup) succeeded
SetBackup(c, data) ==
    /\ usersBackup' = IF c = "users" THEN data ELSE usersBackup
    /\ srvBooksBackup' = IF c = "books" THEN data ELSE srvBooksBackup
    /\ srvOrdersBackup' = IF c = "orders" THEN data ELSE srvOrdersBackup

\* A request not yet received.  pc is where the handler waits: "read" for
\* fs.readFile, "copy" for fs.copyFile, "write" for fs.writeFile, "done"
\* once it has answered.  i is the loop index of the retry loop it is in;
\* snap what readJsonFile returned and got how ("read" from the file,
\* "empty" after giving up); data what it passes to writeJsonFile and saved
\* what writeJsonFile returned; reads, copies and writes count the file
\* system calls the readJsonFile or writeJsonFile under way has made (they
\* go with the call when it returns); status and id are the answer.
NoHandler ==
    [kind |-> "", key |-> "", pc |-> "idle", i |-> 0, snap |-> << >>,
     got |-> "none", data |-> << >>, saved |-> "none", reads |-> 0,
     copies |-> 0, writes |-> 0, status |-> 0, id |-> -1]

\* Faulty variant of LastTry: the loop gives up at its first failure.
LastTryAtOnce(i) == i = 0

\* The loop index is the last one: if (i === retries - 1), lines 50 and 75
LastTry(i) == i = Retries - 1

\* Faulty variant of RetryFrom: a retry writes again without a new backup
\* copy.
RetryFromWrite == "write"

\* Where writeJsonFile goes on after a write that failed, not the last: the
\* loop body starts again at the backup copy (lines 60-67)
RetryFrom == "copy"

\* The status a route answers with once writeJsonFile has returned ok:
\* login does not look at it (line 122); the others answer 500 on false
\* (lines 161-165, 180-184, 204-208).
StatusAfterWrite(kind, ok) ==
    IF kind = "login" THEN 200
    ELSE IF ~ok THEN 500
    ELSE IF kind = "syncBooks" THEN 200 ELSE 201

\* The handler goes on after readJsonFile returned list (no await until
\* writeJsonFile's first copy): login answers at once when the user exists.
AfterRead(h, list, how) ==
    LET idx == IF h.kind = "login" THEN UserIndex(list, h.key) ELSE 0
        rec == NewRecord(h.kind, h.key, now)
    IN  IF idx # 0
        THEN [h EXCEPT !.pc = "done", !.i = 0, !.reads = 0, !.snap = list,
                       !.got = how, !.status = 200, !.id = list[idx].id]
        ELSE [h EXCEPT !.pc = "copy", !.i = 0, !.reads = 0, !.snap = list,
                       !.got = how, !.data = Append(list, rec),
                       !.id = rec.id]

\* A request arrives: validateRequired / Array.isArray answer 400 at once,
\* otherwise the route runs up to its first await.
Arrive(r, kind, key) ==
    /\ handlers[r].pc = "idle"
    /\ \A q \in 1..(r - 1) : handlers[q].pc # "idle"  \* requests are numbered
                                                      \* as they arrive
    /\ handlers' = [handlers EXCEPT ![r] =
          IF key = ""
          THEN [@ EXCEPT !.kind = kind, !.pc = "done", !.status = 400]
          ELSE IF kind = "syncBooks"
          THEN [@ EXCEPT !.kind = kind, !.key = key, !.pc = "copy",
                         !.data = SyncPayload]
          ELSE [@ EXCEPT !.kind = kind, !.key = key, !.pc = "read"]]
    /\ UNCHANGED <<now, clientVars, users, usersBackup, resp, srvBooksBackup,
                   srvOrders, srvOrdersBackup>>

\* One attempt of readJsonFile ends (lines 45-55): ok when the file was
\* read and parsed.
ReadAttempt(r, ok) ==
    LET h  == handlers[r]
        h1 == [h EXCEPT !.reads = @ + 1]
    IN  /\ h.pc = "read"
        /\ handlers' = [handlers EXCEPT ![r] =
              IF ok THEN AfterRead(h1, FileOf(Collection(h.kind)), "read")
              ELSE IF LastTry(h.i) THEN AfterRead(h1, << >>, "empty")
              ELSE [h1 EXCEPT !.i = @ + 1]]
        /\ UNCHANGED <<now, clientVars, users, usersBackup, resp,
                       srvBooksBackup, srvOrders, srvOrdersBackup>>

\* The backup copy of one attempt of writeJsonFile ends (lines 66-70): its
\* failure is swallowed, the write follows.
CopyAttempt(r, ok) ==
    LET h == handlers[r]
        c == Collection(h.kind)
    IN  /\ h.pc = "copy"
        /\ handlers' = [handlers EXCEPT ![r] =
              [h EXCEPT !.pc = "write", !.copies = @ + 1]]
        /\ IF ok THEN SetBackup(c, FileOf(c))
                 ELSE UNCHANGED <<usersBackup, srvBooksBackup,
                                  srvOrdersBackup>>
        /\ UNCHANGED <<now, books, reservations, lsBooks, lsReservations,
                       session, isOfflineMode, probe, serverUp, syncs,
                       srvReservations, turn, last, calls, users, resp,
                       srvBooks, srvOrders>>

\* The write of one attempt of writeJsonFile ends (lines 72-79), and with
\* the last of them the route answers.
WriteAttempt(r, ok) ==
    LET h  == handlers[r]
        c  == Collection(h.kind)
        h1 == [h EXCEPT !.writes = @ + 1]
    IN  /\ h.pc = "write"
        /\ handlers' = [handlers EXCEPT ![r] =
              IF ok \/ LastTry(h.i)
              THEN [h1 EXCEPT !.pc = "done", !.i = 0, !.copies = 0,
                              !.writes = 0,
                              !.saved = IF ok THEN "true" ELSE "false",
                              !.status = StatusAfterWrite(h.kind, ok)]
              ELSE [h1 EXCEPT !.pc = RetryFrom, !.i = @ + 1]]
        /\ IF ok THEN SetFile(c, h.data)
                 ELSE UNCHANGED <<users, srvBooks, srvOrders>>
        /\ UNCHANGED <<now, books, reservations, lsBooks, lsReservations,
                       session, isOfflineMode, probe, serverUp, syncs,
                       srvReservations, turn, last, calls, usersBackup, resp,
                       srvBooksBackup, srvOrdersBackup>>

-----------------------------------------------------------------------------
(* syncWithServer (bookSystem.js:335-364) against server.js *)

\* POST /api/books/sync (server.js:172-189) is answered: the collection is
\* overwritten unless the write fails (then 500); either way fetch resolves
\* and the client issues the reservations request with the set as it is now.
SyncBooksAnswered(task) ==
    /\ task.stage = "books"
    /\ serverUp
    /\ \E copies \in Copies, fails \in Failures :
          LET w == writeJsonFile(srvBooks, srvBooksBackup, task.books,
                                 copies, fails)
          IN  /\ srvBooks' = w.file
              /\ srvBooksBackup' = w.backup
    /\ syncs' = (syncs \ {task}) \cup
                  {[task EXCEPT !.stage = "reservations", !.books = << >>,
                                !.reservations = reservations]}
    /\ UNCHANGED <<now, books, reservations, lsBooks, lsReservations, session,
                   isOfflineMode, probe, serverUp, srvReservations, last,
                   calls, users, usersBackup, resp, srvOrders,
                   srvOrdersBackup, handlers, turn>>

\* POST /api/reservations/sync matches no route of server.js and falls to
\* the 404 handler (server.js:261-264): fetch resolves, nothing is stored.
SyncReservationsAnswered(task) ==
    /\ task.stage = "reservations"
    /\ serverUp
    /\ syncs' = syncs \ {task}
    /\ UNCHANGED <<now, books, reservations, lsBooks, lsReservations, session,
                   isOfflineMode, probe, serverUp, srvBooks, srvReservations,
                   last, calls, serverVars, turn>>

\* Faulty variant of SyncFailed: the failure of the push is reported on the
\* result of the call.
SyncFailedSurfaces(task) ==
    /\ ~serverUp
    /\ syncs' = syncs \ {task}
    /\ last' = [last EXCEPT !.success = FALSE, !.error = "Server sync failed"]
    /\ UNCHANGED <<now, books, reservations, lsBooks, lsReservations, session,
                   isOfflineMode, probe, serverUp, srvBooks, srvReservations,
                   calls, serverVars, turn>>

\* A fetch of the sync rejects (backend unreachable): the catch logs it.
SyncFailed(task) ==
    /\ ~serverUp
    /\ syncs' = syncs \ {task}
    /\ UNCHANGED <<now, books, reservations, lsBooks, lsReservations, session,
                   isOfflineMode, probe, serverUp, srvBooks, srvReservations,
                   last, calls, serverVars, turn>>

-----------------------------------------------------------------------------
(* The page and the backend together *)

\* what the client's own calls leave alone
envVars == <<isOfflineMode, probe, serverUp, srvBooks, srvReservations,
             serverVars, turn>>

\* What sessionStorage holds when the page is opened after a login on the
\* entry page at instant t: what storeSession wrote then.
SessionFrom(t) ==
    [authToken |-> ServerToken,
     currentUser |-> [id |-> ServerUserId("ann@x.io"), email |-> "ann@x.io",
                      name |-> LocalPart("ann@x.io"), type |-> "customer"],
     userType |-> "customer", authExpiry |-> t + SessionMs]

\* The page is opened at instant 1 with no session, with a session of a
\* login made at that instant, or with one made a session lifetime before
\* instant 0 (its expiry has elapsed).
SessionsAtLoad == {NoSession, SessionFrom(1), SessionFrom(0 - SessionMs)}

Init ==
    /\ now = 1
    /\ books = SeedBooks
    /\ reservations = << >>
    /\ lsBooks = SeedBooks
    /\ lsReservations = << >>
    /\ session \in SessionsAtLoad
    /\ isOfflineMode = FALSE
    /\ probe = "pending"
    /\ serverUp \in BOOLEAN
    /\ syncs = {}
    /\ srvBooks = << >>
    /\ srvReservations = << >>
    /\ users = << >>
    /\ usersBackup = << >>
    /\ resp = << >>
    /\ srvBooksBackup = << >>
    /\ srvOrders = << >>
    /\ srvOrdersBackup = << >>
    /\ handlers = [r \in Requests |-> NoHandler]
    /\ turn = NoTurn
    /\ last = NoCall
    /\ calls = 0

\* ids a caller may pass to cancelReservation: 'RES-<t>' for an instant t
\* (no reservation is made at instant 0)
ResIds == 0..(MaxTick + 1)

\* A call of the page, counted
Call(A) == calls < MaxCalls /\ calls' = calls + 1 /\ A /\ UNCHANGED envVars

Next ==
    \/ Tick
    \/ \E b \in OpBookIds : Call(reserveBook(b))
    \/ \E r \in ResIds : Call(cancelReservation(r))
    \/ \E t \in Titles, c \in CopiesInputs : Call(addBook(t, c))
    \/ \E b \in OpBookIds, p \in Patches : Call(updateBook(b, p))
    \/ \E b \in OpBookIds : Call(deleteBook(b))
    \/ \E e \in Emails, p \in Passwords, u \in UserTypes : Call(login(e, p, u))
    \/ Call(logout)
    \/ Call(askIsAuthenticated)
    \/ init

\* The page's calls against a backend that stays as it was found.
Spec == Init /\ [][Next]_vars

\* The backend alone: it starts with the empty collections initializeStorage
\* creates and answers login requests one at a time while the clock runs.
InitServer ==
    /\ Init
    /\ session = NoSession
    /\ serverUp

\* userType as sent in the request body, "" when the field is absent
RequestTypes == UserTypes \cup {""}

NextServer ==
    \/ Tick
    \/ \E e \in Emails, p \in Passwords, u \in RequestTypes :
          \E reads \in Failures, copies \in Copies, writes \in Failures :
              PostLogin(e, p, u, reads, copies, writes)

SpecServer == InitServer /\ [][NextServer]_vars

\* The backend serving requests that overlap: whichever handler's awaited
\* file operation ends next goes on.
NextRequests ==
    \/ Tick
    \/ \E r \in Requests, k \in Kinds : \E key \in BodyKeys(k) :
          Arrive(r, k, key)
    \/ \E r \in Requests, ok \in BOOLEAN : ReadAttempt(r, ok)
    \/ \E r \in Requests, ok \in BOOLEAN : CopyAttempt(r, ok)
    \/ \E r \in Requests, ok \in BOOLEAN : WriteAttempt(r, ok)

SpecRequests == InitServer /\ [][NextRequests]_vars

\* No handler waits on a file operation.
NoneInFlight == \A r \in Requests : handlers[r].pc \in {"idle", "done"}

\* The same backend with each request received after the one before it was
\* answered: its file operations still take their attempts one by one.
NextStore ==
    \/ Tick
    \/ \E r \in Requests, k \in Kinds : \E key \in BodyKeys(k) :
          NoneInFlight /\ Arrive(r, k, key)
    \/ \E r \in Requests, ok \in BOOLEAN : ReadAttempt(r, ok)
    \/ \E r \in Requests, ok \in BOOLEAN : CopyAttempt(r, ok)
    \/ \E r \in Requests, ok \in BOOLEAN : WriteAttempt(r, ok)

SpecStore == InitServer /\ [][NextStore]_vars

-----------------------------------------------------------------------------
(* reserveBook line by line in the page's event loop.  JavaScript runs a    *)
(* call until it returns or reaches an await, and only then lets another    *)
(* call or callback run.  reserveBook is declared async but its body awaits *)
(* nothing: syncWithServer() at line 197 is called, not awaited.            *)

\* Faulty variant of AtAwait: reserveBook awaits between its checks and the
\* decrement.
AtAwaitAfterChecks(c) == TRUE

\* Faulty variant of MayRun: a call or callback starts whatever is under
\* way.
MayRunAlways == TRUE

\* The call is suspended at an await.  A reserveBook that has passed its
\* checks (at line 171) is not: lines 143-199 hold no await.
AtAwait(c) == FALSE

\* Another call or callback may start: every call under way is suspended.
MayRun == \A c \in turn : AtAwait(c)

\* reserveBook, lines 143-169: the checks.  A failed check returns at once;
\* otherwise the call stands at line 171 with the user it read at line 149.
BeginReserve(bookId) ==
    /\ MayRun
    /\ calls + Cardinality(turn) < MaxCalls
    /\ IF ReserveError(bookId) # ""
       THEN /\ session' = SessionAfterGet
            /\ last' = Returned("reserveBook", bookId, -1, FALSE,
                                ReserveError(bookId), -1, -1)
            /\ calls' = calls + 1
            /\ UNCHANGED turn
       ELSE /\ turn' = turn \cup {[op |-> "reserveBook", bookId |-> bookId,
                                    user |-> getCurrentUser]}
            /\ UNCHANGED <<session, last, calls>>
    /\ UNCHANGED <<now, books, reservations, lsBooks, lsReservations, syncs,
                   isOfflineMode, probe, serverUp, srvBooks, srvReservations,
                   serverVars>>

\* reserveBook, lines 171-203: the reservation is built, the copy taken
\* from the book found at line 150, both sets saved, the push started and
\* the result returned.
FinishReserve(c) ==
    /\ c \in turn
    /\ \E tExp \in LaterReads :
          LET idx == BookIndex(books, c.bookId)
              r   == NewReservation(c.bookId, c.user, now, now, tExp)
              bs  == IF idx = 0 THEN books ELSE DecrementAvailable(books, idx)
              rs  == Append(reservations, r)
          IN  /\ now' = tExp
              /\ books' = bs
              /\ reservations' = rs
              /\ lsBooks' = bs
              /\ lsReservations' = rs
              /\ syncs' = syncs \cup {StartSync(Len(rs), bs)}
              /\ last' = Returned("reserveBook", c.bookId, -1, TRUE, "",
                                  r.id, r.expiryDate)
    /\ turn' = turn \ {c}
    /\ calls' = calls + 1
    /\ UNCHANGED <<session, isOfflineMode, probe, serverUp, srvBooks,
                   srvReservations, serverVars>>

\* A call or callback that runs in one turn
InTurn(A) == MayRun /\ calls + Cardinality(turn) < MaxCalls /\ A

NextTurns ==
    \/ Tick
    \/ \E b \in OpBookIds : BeginReserve(b)
    \/ \E c \in turn : FinishReserve(c)
    \/ \E r \in ResIds : InTurn(Call(cancelReservation(r)))
    \/ \E b \in OpBookIds : InTurn(Call(deleteBook(b)))
    \/ \E e \in Emails, p \in Passwords, u \in UserTypes :
          InTurn(Call(login(e, p, u)))
    \/ \E task \in syncs : MayRun /\ SyncBooksAnswered(task)
    \/ \E task \in syncs : MayRun /\ SyncReservationsAnswered(task)
    \/ \E task \in syncs : MayRun /\ SyncFailed(task)

\* The event loop keeps taking turns while there is one to take.
SpecTurns == Init /\ [][NextTurns]_vars /\ WF_vars(NextTurns)

\* A call of a page that only logs in, reserves and cancels, counted
Booking(A) ==
    calls < MaxBookings /\ calls' = calls + 1 /\ A /\ UNCHANGED envVars

\* The customer's page: logins, reservations and cancellations, no admin
\* call.
NextBooking ==
    \/ Tick
    \/ \E b \in OpBookIds : Booking(reserveBook(b))
    \/ \E r \in ResIds : Booking(cancelReservation(r))
    \/ \E e \in Emails, p \in Passwords, u \in UserTypes :
          Booking(login(e, p, u))

SpecBooking == Init /\ [][NextBooking]_vars

\* The page against a backend that is and stays reachable: every request of
\* a push is answered.
InitOnline == Init /\ serverUp

NextOnline ==
    \/ Next
    \/ \E task \in syncs : SyncBooksAnswered(task)
    \/ \E task \in syncs : SyncReservationsAnswered(task)

SpecOnline == InitOnline /\ [][NextOnline]_vars

\* The same with the environment moving: the backend goes and comes, syncs
\* are answered, sessions outlive their lifetime, the page is loaded again.
NextSystem ==
    \/ Next
    \/ Jump
    \/ ServerToggle
    \/ Reload
    \/ \E task \in syncs : SyncBooksAnswered(task)
    \/ \E task \in syncs : SyncReservationsAnswered(task)
    \/ \E task \in syncs : SyncFailed(task)

SpecSystem == Init /\ [][NextSystem]_vars

-----------------------------------------------------------------------------
(* Properties of the catalog and the reservation manager *)

\* The step is the call op: every call is counted, nothing else is.
CallStep(op) == calls' = calls + 1 /\ last'.op = op

ReserveStep(bookId) == CallStep("reserveBook") /\ last'.bookId = bookId

CancelStep(reservationId) ==
    CallStep("cancelReservation") /\ last'.resId = reservationId

DeleteStep(bookId) == CallStep("deleteBook") /\ last'.bookId = bookId

\* Catalog, Reservation set and their persisted copies are as before.
LocalUnchanged == UNCHANGED <<books, reservations, lsBooks, lsReservations>>

\* C1: in every state reachable by addBook, updateBook, reserveBook,
\* cancelReservation and deleteBook calls, every book has
\* 0 <= availableCopies <= totalCopies.
C1_CopiesWithinTotal ==
    \A i \in DOMAIN books :
        /\ 0 <= books[i].availableCopies
        /\ books[i].availableCopies <= books[i].totalCopies

\* C2: cancelling a reservation that is already cancelled is rejected
\* (success:false) and neither increments availableCopies nor changes any
\* other state of the catalog and the reservation set.
C2_CancelTwiceRejected ==
    [][\A r \in ResIds :
          LET i == ResIndex(reservations, r)
          IN  (CancelStep(r) /\ i # 0 /\ reservations[i].status = "cancelled")
                  => (~last'.success /\ LocalUnchanged)]_vars

\* C3: a successful reserveBook(bookId) decrements that book's
\* availableCopies by exactly 1 and appends exactly one reservation, active,
\* whose expiryDate is its reservationDate plus exactly 7 days; no other book
\* or reservation changes.
C3_ReserveEffect ==
    [][\A b \in OpBookIds :
          (ReserveStep(b) /\ last'.success) =>
              LET idx == BookIndex(books, b)
                  n   == Len(reservations)
              IN  /\ idx # 0
                  /\ books' = [books EXCEPT ![idx].availableCopies = @ - 1]
                  /\ Len(reservations') = n + 1
                  /\ SubSeq(reservations', 1, n) = reservations
                  /\ reservations'[n + 1].status = "active"
                  /\ reservations'[n + 1].bookId = b
                  /\ reservations'[n + 1].expiryDate =
                        reservations'[n + 1].reservationDate + SevenDaysMs]_vars

\* No (userId, bookId) pair has two active reservations.
AtMostOneActive ==
    \A i, j \in DOMAIN reservations :
        (/\ i # j
         /\ reservations[i].status = "active"
         /\ reservations[j].status = "active"
         /\ reservations[i].bookId = reservations[j].bookId)
            => reservations[i].userId # reservations[j].userId

\* The caller is logged in and holds an active reservation for the book.
HoldsActive(bookId) ==
    /\ isAuthenticated
    /\ HasActive(reservations, bookId, getCurrentUser.id)

\* C4 as stated: at most one active reservation per (userId, bookId), and a
\* reserveBook call by a user who already holds an active reservation for
\* the book fails with DuplicateReservation and changes nothing.
C4_DuplicateAlwaysReported ==
    [][/\ AtMostOneActive'
       /\ \A b \in OpBookIds :
            (ReserveStep(b) /\ HoldsActive(b)) =>
                /\ ~last'.success
                /\ last'.error = ErrDuplicate
                /\ LocalUnchanged /\ UNCHANGED syncs]_vars

\* C4, amended: at most one active reservation per (userId, bookId); a
\* reserveBook call by a user who already holds an active reservation for
\* the book fails and changes nothing, with DuplicateReservation when the
\* book is in the Catalog with availableCopies > 0 and with the error of the
\* earlier check (NotFound, NoCopiesAvailable) otherwise.
C4_AtMostOneActive ==
    /\ []AtMostOneActive
    /\ [][\A b \in OpBookIds :
            (ReserveStep(b) /\ HoldsActive(b)) =>
                LET idx == BookIndex(books, b)
                IN  /\ ~last'.success
                    /\ last'.error =
                          IF idx = 0 THEN ErrBookNotFound
                          ELSE IF books[idx].availableCopies <= 0
                               THEN ErrNoCopies
                               ELSE ErrDuplicate
                    /\ LocalUnchanged /\ UNCHANGED syncs]_vars

\* C4 witness: a second reserveBook for a book the caller holds was refused
\* as a duplicate.
C4_Witness ==
    /\ last.op = "reserveBook"
    /\ last.error = ErrDuplicate
    /\ HoldsActive(last.bookId)

\* C5: a reservation that is cancelled stays cancelled (and in place) through
\* every later step, whatever the operation.
C5_CancelledIsTerminal ==
    [][\A i \in DOMAIN reservations :
          reservations[i].status = "cancelled" =>
              /\ i \in DOMAIN reservations'
              /\ reservations'[i].id = reservations[i].id
              /\ reservations'[i].status = "cancelled"]_vars

\* C5 witness: after a cancellation the same user reserved the same book
\* again; the old reservation is still cancelled beside the new one.
C5_Witness ==
    /\ Len(reservations) = 2
    /\ last.op = "reserveBook" /\ last.success
    /\ reservations[1].status = "cancelled"
    /\ reservations[2].status = "active"
    /\ reservations[1].bookId = reservations[2].bookId
    /\ reservations[1].userId = reservations[2].userId

CascadeDone(bookId) ==
    /\ DOMAIN reservations' = DOMAIN reservations
    /\ \A i \in DOMAIN reservations :
          IF reservations[i].bookId = bookId /\ reservations[i].status = "active"
          THEN /\ reservations'[i].status = "cancelled"
               /\ reservations'[i].cancelledDate >= 0
               /\ reservations'[i].id = reservations[i].id
          ELSE reservations'[i] = reservations[i]
    /\ \A i \in DOMAIN reservations' :
          reservations'[i].bookId = bookId => reservations'[i].status # "active"

\* C7 as stated: after deleteBook(id) returns true the Catalog contains no
\* book with that id, and no reservation of that book is active (each that
\* was is cancelled, stamped and still present).
C7_DeleteRemovesEveryBook ==
    [][\A b \in OpBookIds :
          (DeleteStep(b) /\ last'.success) =>
              /\ BookIndex(books', b) = 0
              /\ CascadeDone(b)]_vars

\* C7, amended: after deleteBook(id) returns true the first book with that
\* id is gone from the Catalog and the other books are as they were (so no
\* book with that id is left when only one had it), and no reservation of
\* that book is active (each that was is cancelled, stamped and present).
C7_DeleteCascades ==
    [][\A b \in OpBookIds :
          (DeleteStep(b) /\ last'.success) =>
              LET idx == BookIndex(books, b)
              IN  /\ idx # 0
                  /\ Len(books') = Len(books) - 1
                  /\ \A i \in DOMAIN books' :
                        books'[i] = IF i < idx THEN books[i] ELSE books[i + 1]
                  /\ (\A i \in DOMAIN books : books[i].id = b => i = idx)
                        => BookIndex(books', b) = 0
                  /\ CascadeDone(b)]_vars

\* C7 witness: a book with an active reservation was deleted; the
\* reservation is there, cancelled and stamped, and the book is gone.
C7_Witness ==
    /\ last.op = "deleteBook" /\ last.success
    /\ BookIndex(books, last.bookId) = 0
    /\ \E i \in DOMAIN reservations :
          /\ reservations[i].bookId = last.bookId
          /\ reservations[i].status = "cancelled"
          /\ reservations[i].cancelledDate >= 0
    /\ calls = 2

\* What a refused call leaves alone: the Catalog, the Reservation set, their
\* persisted copies, the syncs in flight and the server's collections.
NothingPushed ==
    /\ LocalUnchanged
    /\ UNCHANGED <<syncs, srvBooks, srvReservations>>

\* C8: a reserveBook call that fails a precondition (caller not
\* authenticated, book id not in the Catalog, availableCopies <= 0) returns
\* success:false with that precondition's error and leaves the Catalog, the
\* Reservation set and the server store unchanged: no sync is started.
C8_RefusedReserveChangesNothing ==
    [][\A b \in OpBookIds :
          ReserveStep(b) =>
              LET idx == BookIndex(books, b)
              IN  /\ ~isAuthenticated =>
                        /\ ~last'.success /\ last'.error = ErrLogin
                        /\ NothingPushed
                  /\ (isAuthenticated /\ idx = 0) =>
                        /\ ~last'.success /\ last'.error = ErrBookNotFound
                        /\ NothingPushed
                  /\ (isAuthenticated /\ idx # 0
                         /\ books[idx].availableCopies <= 0) =>
                        /\ ~last'.success /\ last'.error = ErrNoCopies
                        /\ NothingPushed]_vars

\* C8 witness: a logged-in caller was refused a book whose last copy is out.
C8_Witness ==
    /\ last.op = "reserveBook" /\ ~last.success
    /\ last.error = ErrNoCopies
    /\ isAuthenticated
    /\ BookIndex(books, last.bookId) # 0
    /\ books[BookIndex(books, last.bookId)].availableCopies = 0

\* C9: cancelReservation returns success:false and changes neither a
\* reservation nor a book when the id names no reservation (NotFound) or the
\* current user, a missing one included, is not the reservation's userId
\* (Unauthorized).  The call always returns: it never throws.
C9_RefusedCancelChangesNothing ==
    [][\A r \in ResIds :
          CancelStep(r) =>
              LET i    == ResIndex(reservations, r)
                  user == getCurrentUser
              IN  /\ i = 0 =>
                        /\ ~last'.success /\ last'.error = ErrResNotFound
                        /\ LocalUnchanged
                  /\ (i # 0 /\ reservations[i].userId # user.id) =>
                        /\ ~last'.success /\ last'.error = ErrUnauthorized
                        /\ LocalUnchanged]_vars

\* C10: over login requests handled one after another, every email that
\* was answered with a user has exactly one record in the users collection,
\* the record carries the id answered, every answer for that email carries
\* the same id, and no two records share an email.
C10_OneUserPerEmail ==
    /\ \A i, j \in DOMAIN resp :
          (resp[i].status = 200 /\ resp[j].status = 200
              /\ resp[i].email = resp[j].email) => resp[i].id = resp[j].id
    /\ \A i \in DOMAIN resp :
          resp[i].status = 200 =>
              /\ UserIndex(users, resp[i].email) # 0
              /\ users[UserIndex(users, resp[i].email)].id = resp[i].id
    /\ \A i, j \in DOMAIN users : users[i].email = users[j].email => i = j

-----------------------------------------------------------------------------
(* Properties of the backend's file operations and handlers *)

\* C11: a handler whose writeJsonFile returned false (every attempt of the
\* write failed) has answered 500, whichever route it serves: login's user
\* creation, POST /api/books, POST /api/books/sync, POST /api/orders.
C11_FailedWriteAnswers500 ==
    \A r \in Requests :
        handlers[r].saved = "false" => handlers[r].status = 500

\* A step of request r's handler from where it waits at pc
HandlerStep(r, pc) == handlers[r].pc = pc /\ handlers'[r] # handlers[r]

\* C12: readJsonFile makes at most 3 read attempts; an attempt that fails
\* is followed by another unless it was the third, and the third failure
\* makes readJsonFile return the empty collection to its caller, which goes
\* on as after any read (nothing is raised: no 500 is answered for it).
C12_ReadGivesUpEmpty ==
    [][\A r \in Requests :
          HandlerStep(r, "read") =>
              LET h == handlers[r]
                  g == handlers'[r]
              IN  /\ h.reads < Retries
                  /\ \/ /\ g.got = "read"
                        /\ g.snap = FileOf(Collection(h.kind))
                        /\ g.pc \in {"copy", "done"}
                     \/ /\ g.got = "none"
                        /\ g.pc = "read"
                        /\ g.reads = h.reads + 1
                        /\ g.reads < Retries
                     \/ /\ g.got = "empty"
                        /\ h.reads + 1 = Retries
                        /\ g.snap = << >>
                        /\ g.pc = "copy"
                        /\ g.status = 0]_vars

\* C12 witness: a read gave up on a collection that holds a record; its
\* route went on with the empty collection and answered 201.
C12_Witness ==
    \E r \in Requests :
        /\ handlers[r].got = "empty"
        /\ handlers[r].snap = << >>
        /\ handlers[r].pc = "done"
        /\ handlers[r].status = 201
        /\ Len(handlers[r].data) = 1
        /\ \E q \in Requests : q # r /\ handlers[q].saved = "true"

-----------------------------------------------------------------------------
(* Properties of the session stub *)

\* C13: a successful login in offline mode stores, with the token, the user
\* and the type, an expiry 4 hours after the login instant.
C13_OfflineLoginRecordsExpiry ==
    [][(CallStep("login") /\ isOfflineMode /\ last'.success) =>
          /\ session'.authToken # NoToken
          /\ session'.currentUser # NoUser
          /\ session'.authExpiry = now + SessionMs]_vars

\* The session holds a user / an expiry that has elapsed
UserStored == session.currentUser # NoUser
ExpiryElapsed == session.authExpiry # -1 /\ now > session.authExpiry

\* C14: isAuthenticated() returns true iff a user is stored in the session
\* and the recorded expiry has not elapsed; a call made after the expiry
\* has elapsed returns false and clears the four session keys; and a
\* cleared session stays cleared until a login succeeds.
C14_AuthenticatedUntilExpiry ==
    /\ [][CallStep("isAuthenticated") =>
             /\ last'.success = (UserStored /\ ~ExpiryElapsed)
             /\ (UserStored /\ ExpiryElapsed) =>
                   /\ ~last'.success
                   /\ session' = NoSession
             /\ ~(UserStored /\ ExpiryElapsed) => session' = session]_vars
    /\ [][(session = NoSession /\ session' # NoSession) =>
             (CallStep("login") /\ last'.success)]_vars

\* C14 witness: isAuthenticated() was asked with a user stored whose expiry
\* had elapsed; it answered false and the session is cleared.
C14_Witness ==
    /\ last.op = "isAuthenticated"
    /\ ~last.success
    /\ last.expiryDate # -1
    /\ now > last.expiryDate
    /\ session = NoSession

-----------------------------------------------------------------------------
(* Properties of the push to the server *)

\* A step of a push in flight: a fetch of syncWithServer is answered or
\* rejects (a page call that starts a push is counted, these are not).
SyncStep == syncs' # syncs /\ calls' = calls

\* C15: a reserveBook that succeeds has decremented, appended the active
\* reservation and persisted both sets when it returns, with the backend
\* reachable or not; and no later step of its push, answered, failed or
\* still in flight, changes the result returned, the Catalog, the
\* Reservation set or their persisted copies.
C15_PushNeverChangesTheOutcome ==
    /\ [][\A b \in OpBookIds :
             (ReserveStep(b) /\ last'.success) =>
                 LET idx == BookIndex(books, b)
                 IN  /\ books'[idx].availableCopies
                           = books[idx].availableCopies - 1
                     /\ Len(reservations') = Len(reservations) + 1
                     /\ reservations'[Len(reservations')].status = "active"
                     /\ reservations'[Len(reservations')].bookId = b
                     /\ lsBooks' = books'
                     /\ lsReservations' = reservations']_vars
    /\ [][SyncStep =>
             UNCHANGED <<books, reservations, lsBooks, lsReservations,
                         last>>]_vars

\* C15 witness: a reservation succeeded with the backend unreachable, its
\* push has failed, and the result and the persisted reservation stand.
C15_Witness ==
    /\ last.op = "reserveBook" /\ last.success
    /\ ~serverUp
    /\ syncs = {}
    /\ srvBooks = << >>
    /\ Len(lsReservations) = 1
    /\ lsReservations[1].status = "active"
    /\ lsReservations = reservations

\* C16: when the reservations request of a push is answered by the backend,
\* the server's reservations collection is exactly the array the request
\* carried, the client's Reservation set of that moment.
C16_ReservationsSyncStores ==
    [][\A task \in syncs :
          (SyncStep /\ serverUp /\ task.stage = "reservations"
              /\ syncs' = syncs \ {task}) =>
              /\ srvReservations' = task.reservations
              /\ srvReservations' = reservations]_vars

-----------------------------------------------------------------------------
(* Properties of overlapping requests *)

\* The collection after the step
FileAfter(c) ==
    CASE c = "users"  -> users'
      [] c = "books"  -> srvBooks'
      [] c = "orders" -> srvOrders'

\* The routes that read a collection, add a record and write it back
Appending == {"login", "addBook", "addOrder"}

\* C17: a write that succeeds leaves in the collection what its handler
\* read before plus that handler's one record, with no merge: a record
\* another request wrote after that read is no longer there, though both
\* requests are answered with success.
C17_LastWriterWins ==
    [][\A r \in Requests :
          (HandlerStep(r, "write") /\ handlers'[r].saved = "true"
              /\ handlers[r].kind \in Appending) =>
              LET h == handlers[r]
              IN  /\ FileAfter(Collection(h.kind)) = h.data
                  /\ Len(h.data) = Len(h.snap) + 1
                  /\ SubSeq(h.data, 1, Len(h.snap)) = h.snap
                  /\ handlers'[r].status \in {200, 201}]_vars

\* C17 witness: two POST /api/books with different titles, every file
\* operation of both succeeding, both answered 201, and books.json holds
\* one record.
C17_Witness ==
    \E a, b \in Requests :
        /\ a # b
        /\ handlers[a].kind = "addBook" /\ handlers[b].kind = "addBook"
        /\ handlers[a].status = 201 /\ handlers[b].status = 201
        /\ handlers[a].got = "read" /\ handlers[b].got = "read"
        /\ handlers[a].key # handlers[b].key
        /\ srvBooks = handlers[b].data
        /\ Len(srvBooks) = 1

-----------------------------------------------------------------------------
(* Properties of the page's event loop *)

\* Two reserveBook calls for the same book stand between their availability
\* check and their decrement.
TwoPastTheCheck ==
    \E c, d \in turn : c # d /\ c.bookId = d.bookId

C19_OneTurnPerCall ==
    /\ [][turn # {} =>
             \/ UNCHANGED <<clientVars, serverVars>>
             \/ \E c \in turn :
                   /\ turn' = {}
                   /\ ReserveStep(c.bookId)
                   /\ last'.success]_vars
    /\ [][\A c \in turn :
             turn' = turn \ {c} =>
                 LET idx == BookIndex(books, c.bookId)
                 IN  /\ idx # 0
                     /\ books[idx].availableCopies > 0
                     /\ ~HasActive(reservations, c.bookId, c.user.id)
                     /\ books'[idx].availableCopies
                           = books[idx].availableCopies - 1
                     /\ reservations'
                           = Append(reservations,
                                    reservations'[Len(reservations')])]_vars

\* C19 witness: a reserveBook stands past its checks while a push of an
\* earlier reservation waits for its answer.
C19_Witness ==
    /\ turn # {}
    /\ syncs # {}
    /\ Len(reservations) >= 1

-----------------------------------------------------------------------------
(* Properties of writeJsonFile *)

\* The backup of the collection after the step
BackupAfter(c) ==
    CASE c = "users"  -> usersBackup'
      [] c = "books"  -> srvBooksBackup'
      [] c = "orders" -> srvOrdersBackup'

\* C20: every attempt of writeJsonFile, retries included, first copies the
\* collection file as it is over the .backup file and only then writes the
\* collection file; a copy that fails does not end the attempt (the write
\* follows all the same); at most 3 attempts are made, and false is
\* returned only after the third write has failed.
C20_BackupBeforeEachWrite ==
    /\ [](\A r \in Requests :
             /\ handlers[r].pc = "copy" =>
                   /\ handlers[r].copies = handlers[r].writes
                   /\ handlers[r].writes < Retries
             /\ handlers[r].pc = "write" =>
                   /\ handlers[r].copies = handlers[r].writes + 1
                   /\ handlers[r].writes < Retries)
    /\ [][\A r \in Requests :
             LET h == handlers[r]
                 g == handlers'[r]
                 c == Collection(h.kind)
             IN  /\ HandlerStep(r, "copy") =>
                       /\ g.pc = "write"
                       /\ g.i = h.i
                       /\ BackupAfter(c) \in {FileOf(c), BackupOf(c)}
                       /\ FileAfter(c) = FileOf(c)
                 /\ HandlerStep(r, "write") =>
                       \/ /\ g.saved = "true"
                          /\ FileAfter(c) = h.data
                       \/ /\ g.pc = "copy"
                          /\ g.i = h.i + 1
                          /\ h.writes + 1 < Retries
                          /\ FileAfter(c) = FileOf(c)
                       \/ /\ g.saved = "false"
                          /\ h.writes + 1 = Retries
                          /\ FileAfter(c) = FileOf(c)]_vars

\* C20 witness: a handler is at the write of its third attempt, after two
\* failed writes; the backup copy of this attempt was made and holds the
\* collection as another request left it.
C20_Witness ==
    \E r \in Requests :
        /\ handlers[r].pc = "write"
        /\ handlers[r].writes = 2
        /\ handlers[r].copies = 3
        /\ Len(FileOf(Collection(handlers[r].kind))) = 1
        /\ BackupOf(Collection(handlers[r].kind))
              = FileOf(Collection(handlers[r].kind))

-----------------------------------------------------------------------------
(* Properties of a single client's reservation set *)

\* The active reservations that reference the book id
ActiveFor(bookId) ==
    Cardinality({i \in DOMAIN reservations :
                    /\ reservations[i].bookId = bookId
                    /\ reservations[i].status = "active"})

\* C21: in every state a single client reaches, for each book of the
\* Catalog the number of active reservations that reference its id does not
\* exceed the book's totalCopies.
C21_NoOverbooking ==
    \A i \in DOMAIN books : ActiveFor(books[i].id) <= books[i].totalCopies

\* C22: the reservations of a client's Reservation set have pairwise
\* distinct ids after any sequence of successful reserveBook calls, calls
\* made within one millisecond of the clock included, so that
\* cancelReservation(id) finds the one reservation reserveBook returned
\* that id for.
C22_DistinctReservationIds ==
    \A i, j \in DOMAIN reservations :
        i # j => reservations[i].id # reservations[j].id

\* C23: a successful reserveBook(b) by user u followed by cancelReservation
\* of the returned reservationId by u succeeds, gives every book the
\* availableCopies it had before the reserve (the copy the reserve took
\* from b is back), leaves u with no active reservation for b, and u can
\* reserve b again.
C23_ReserveCancelRoundTrip ==
    [][\A r \in ResIds, b \in OpBookIds :
          LET n == Len(reservations)
              u == getCurrentUser
          IN  (/\ last.op = "reserveBook"
               /\ last.success
               /\ last.bookId = b
               /\ last.reservationId = r
               /\ CancelStep(r)
               /\ n > 0
               /\ u # NoUser
               /\ u.id = reservations[n].userId) =>
                  /\ last'.success
                  /\ books' = IncrementAvailable(books, b)
                  /\ ~HasActive(reservations', b, reservations[n].userId)
                  /\ ReserveError(b)' = ""]_vars

-----------------------------------------------------------------------------
(* Properties of the server mirror *)

\* The calls that do not call syncWithServer
UnpushedOps == {"cancelReservation", "deleteBook", "addBook", "updateBook"}

\* The push started by the reserveBook that made the i-th reservation has
\* ended: both its requests were answered.
Pushed(i) == i \in DOMAIN reservations /\ \A task \in syncs : task.n # i

\* The collection holds a record with the id
Holds(list, id) == \E j \in DOMAIN list : list[j].id = id

\* C24: cancelReservation, deleteBook, addBook and updateBook start no push
\* and leave the server's books and reservations collections as they were;
\* so, against a backend that answers every push, the server still shows as
\* active a reservation that was pushed and is now cancelled, and still
\* holds a book that was pushed and is now deleted.
C24_NoPushMirrorStale ==
    [][/\ \A op \in UnpushedOps :
             CallStep(op) =>
                 UNCHANGED <<syncs, srvBooks, srvReservations>>
       /\ \A r \in ResIds :
             LET i == ResIndex(reservations, r)
             IN  (/\ CancelStep(r)
                  /\ last'.success
                  /\ Pushed(i)
                  /\ reservations[i].status = "active") =>
                     \E j \in DOMAIN srvReservations' :
                         /\ srvReservations'[j].id = r
                         /\ srvReservations'[j].status = "active"
       /\ \A b \in OpBookIds :
             (/\ DeleteStep(b)
              /\ last'.success
              /\ Holds(srvBooks, b)) => Holds(srvBooks', b)]_vars

-----------------------------------------------------------------------------
(* Properties of login *)

\* The messages of a refused login: missing credentials and an email
\* without '@' in offline mode, the backend's non-OK answer, no connection
LoginErrors == {"Email and password required", "Invalid email format",
                "Missing required fields", "Connection failed"}

\* C25: a login call that returns success:false, for any of its four
\* reasons, leaves every key of sessionStorage as it was: no session is
\* established, and an existing one is neither altered nor ended.
C25_RefusedLoginKeepsSession ==
    [][(CallStep("login") /\ ~last'.success) =>
           /\ last'.error \in LoginErrors
           /\ session' = session]_vars

\* C25 witness: with a session stored, the page's login was refused in
\* offline mode for an email without '@', and the session is still there.
C25_Witness ==
    /\ last.op = "login"
    /\ ~last.success
    /\ last.error = "Invalid email format"
    /\ session.currentUser # NoUser
    /\ session.authExpiry # -1

\* The results of the offline path (handleOfflineLogin): success, or one of
\* its two refusals
OfflineResult(res) ==
    \/ res.success
    \/ res.error \in {"Email and password required", "Invalid email format"}

\* C26: whenever the server is unreachable at the moment login is invoked,
\* login takes the offline path (a non-empty password with an email that
\* contains '@' succeeds), whether or not the health probe started by the
\* constructor has ended and whatever it found.
C26_UnreachableLoginGoesOffline ==
    [][(CallStep("login") /\ ~serverUp) => OfflineResult(last')]_vars

====
